---- MODULE Spec2Model ----
(***************************************************************************)
(* Cross-Protocol Dust Collector Bot: the bundling-and-execution pipeline   *)
(* (runDiscoveryAndClaims), the scheduler loop that drives it, the          *)
(* executions ledger and the quarantine tracker.                            *)
(*                                                                         *)
(* USD amounts are integers in units of 0.1 USD.  Time is counted in        *)
(* scheduler intervals.                                                     *)
(***************************************************************************)
EXTENDS Integers, Sequences, FiniteSets, TLC

(***************************************************************************)
(* Bounds of the model.                                                     *)
(***************************************************************************)
MaxCycles == 2

MaxFailures == 5

\* longest item sequence the library functions are exercised on
MaxItems == 4

\* how far the clock of the chain client is advanced, in steps of ClockStepMs
MaxClockSteps == 5

(***************************************************************************)
(* Policy (economics/policy.ts); USD in units of 0.1, time in days.          *)
(***************************************************************************)
MIN_ITEM_USD == 1

MIN_BUNDLE_GROSS_USD == 20

MIN_BUNDLE_NET_USD == 10

COOLDOWN_DAYS == 7

MIN_BUNDLE_SIZE == 10

MAX_BUNDLE_SIZE == 30

RETRY_MAX_ATTEMPTS == 3

QUARANTINE_THRESHOLD == 5

QUARANTINE_WINDOW == 2

(***************************************************************************)
(* The world the collaborators report: integrations, wallets, rewards.      *)
(***************************************************************************)
\* lastClaimAt is absent (<<>>) or <<t>>
NoClaim == <<>>

Integrations == <<"justlend", "benqi">>

Wallets == {"w1", "w2"}

RewardIds == {"r1", "r2", "r3", "r6"}

RewardOrder == <<"r1", "r2", "r3", "r6">>

RewardTable ==
  [r1 |-> [wallet |-> "w1", protocol |-> "justlend", chain |-> "tron",
           claimTo |-> "c1", amountUsd |-> 40, lastClaimAt |-> <<-5>>],
   r2 |-> [wallet |-> "w2", protocol |-> "justlend", chain |-> "tron",
           claimTo |-> "c1", amountUsd |-> 10, lastClaimAt |-> <<-5>>],
   r3 |-> [wallet |-> "w1", protocol |-> "benqi", chain |-> "avalanche",
           claimTo |-> "c2", amountUsd |-> 50, lastClaimAt |-> NoClaim],
   r4 |-> [wallet |-> "w2", protocol |-> "justlend", chain |-> "tron",
           claimTo |-> "c1", amountUsd |-> 5, lastClaimAt |-> NoClaim],
   r5 |-> [wallet |-> "w1", protocol |-> "justlend", chain |-> "tron",
           claimTo |-> "c1", amountUsd |-> 15, lastClaimAt |-> NoClaim],
   r6 |-> [wallet |-> "w1", protocol |-> "benqi", chain |-> "avalanche",
           claimTo |-> "c3", amountUsd |-> 0, lastClaimAt |-> NoClaim]]

\* the reward items the library functions are exercised on; the integrations
\* report those of RewardIds
ItemIds == {"r1", "r2", "r3", "r4", "r5", "r6"}

\* gas estimates (0.1 USD) a bundle can arrive with
GasSamples == {0, 10, 45}

SeedWallets == {"w1"}

\* wallets whose claims fail and get reported to the quarantine tracker
FailingWallets == {"w2"}

(***************************************************************************)
(* Sequence helpers.                                                        *)
(***************************************************************************)
Range(s) == {s[i] : i \in DOMAIN s}

RECURSIVE SelectOrdered(_, _)
SelectOrdered(order, S) ==
  IF order = <<>> THEN <<>>
  ELSE IF Head(order) \in S
       THEN <<Head(order)>> \o SelectOrdered(Tail(order), S)
       ELSE SelectOrdered(Tail(order), S)

RECURSIVE SumUsd(_)
SumUsd(items) ==
  IF items = <<>> THEN 0
  ELSE RewardTable[Head(items)].amountUsd + SumUsd(Tail(items))

(***************************************************************************)
(* Bundler (engine/bundler.ts).                                             *)
(***************************************************************************)
GroupKeyNoClaimTo(r) == <<RewardTable[r].chain, RewardTable[r].protocol>>

GroupKey(r) ==
  <<RewardTable[r].chain, RewardTable[r].protocol, RewardTable[r].claimTo>>

BundleKey(b) == GroupKey(b.items[1])

\* a bundle built from an item sequence; the id is derived from the members
MakeBundle(items) ==
  [id |-> items, items |-> items, totalUsd |-> SumUsd(items),
   estGasUsd |-> 0, netUsd |-> 0]

RECURSIVE GroupInto(_, _)
GroupInto(items, acc) ==
  IF items = <<>> THEN acc
  ELSE LET r == Head(items)
           hit == {i \in DOMAIN acc : GroupKey(acc[i][1]) = GroupKey(r)}
       IN IF hit = {}
          THEN GroupInto(Tail(items), Append(acc, <<r>>))
          ELSE LET i == CHOOSE j \in hit : TRUE
               IN GroupInto(Tail(items),
                            [acc EXCEPT ![i] = Append(acc[i], r)])

groupByContract(items) ==
  LET groups == GroupInto(items, <<>>)
  IN [i \in DOMAIN groups |-> MakeBundle(groups[i])]

RECURSIVE Chunks(_, _)
Chunks(items, n) ==
  IF Len(items) <= n THEN <<MakeBundle(items)>>
  ELSE <<MakeBundle(SubSeq(items, 1, n))>>
         \o Chunks(SubSeq(items, n + 1, Len(items)), n)

\* a bundle is partitioned when items.length > maxSize
NeedsSplitOffByOne(b, maxSize) == Len(b.items) > maxSize + 1

NeedsSplit(b, maxSize) == Len(b.items) > maxSize

RECURSIVE splitLargeBundles(_, _)
splitLargeBundles(bundles, maxSize) ==
  IF bundles = <<>> THEN <<>>
  ELSE (IF NeedsSplit(Head(bundles), maxSize)
        THEN Chunks(Head(bundles).items, maxSize)
        ELSE <<Head(bundles)>>)
       \o splitLargeBundles(Tail(bundles), maxSize)

\* an undersized bundle b may be appended to the earlier undersized bundle a
CanMergeAnyKey(a, b, minSize, maxSize) ==
  /\ Len(a.items) < minSize
  /\ Len(a.items) + Len(b.items) <= maxSize

CanMerge(a, b, minSize, maxSize) ==
  /\ BundleKey(a) = BundleKey(b)
  /\ Len(a.items) < minSize
  /\ Len(a.items) + Len(b.items) <= maxSize

RECURSIVE MergeInto(_, _, _, _)
MergeInto(bundles, acc, minSize, maxSize) ==
  IF bundles = <<>> THEN acc
  ELSE LET b == Head(bundles)
           hit == {i \in DOMAIN acc : CanMerge(acc[i], b, minSize, maxSize)}
       IN IF Len(b.items) >= minSize \/ hit = {}
          THEN MergeInto(Tail(bundles), Append(acc, b), minSize, maxSize)
          ELSE LET i == CHOOSE j \in hit : \A k \in hit : j <= k
               IN MergeInto(Tail(bundles),
                    [acc EXCEPT ![i] = MakeBundle(acc[i].items \o b.items)],
                    minSize, maxSize)

\* mergeBundles with the size cap it reads from the policy as a parameter
mergeBundlesUpTo(bundles, minSize, maxSize) ==
  MergeInto(bundles, <<>>, minSize, maxSize)

mergeBundles(bundles, minSize) ==
  mergeBundlesUpTo(bundles, minSize, MAX_BUNDLE_SIZE)

\* the bundles of a cycle: grouped, split at maxSize, merged towards minSize
sizeBundlesNoSplit(items, minSize, maxSize) ==
  mergeBundlesUpTo(groupByContract(items), minSize, maxSize)

sizeBundles(items, minSize, maxSize) ==
  mergeBundlesUpTo(splitLargeBundles(groupByContract(items), maxSize),
                   minSize, maxSize)

(***************************************************************************)
(* State.                                                                   *)
(***************************************************************************)
VARIABLES
  sched,              \* Scheduler state: "Idle", "Running" or "Stopped"
  stopFlag,           \* the caller's stop signal
  cycles,             \* cycles started so far
  now,                \* Date.now(), in scheduler intervals
  dbInstance,         \* state/db.ts singleton: "null" or "open"
  active,             \* invocations of runDiscoveryAndClaims in flight
  cyclePromise,       \* promise of the cycle: none/pending/resolved/rejected
  pc,                 \* position inside runDiscoveryAndClaims
  ii,                 \* index of the integration the discovery loop is at
  allPendingRewards,  \* reward ids collected by the discovery loop
  bundles,            \* bundles after split and merge
  profitableBundles,  \* bundles that passed the profitability filter
  run,                \* per profitable bundle: position and outcomes
  executions,         \* executions table, rows in insertion order
  pending_rewards,    \* pending_rewards table, set of rows
  wallets,            \* wallets table, set of rows
  failureCount,       \* quarantine tracker: failures per wallet
  quarantinedUntil,   \* quarantine tracker: end of quarantine per wallet
  queried,            \* wallets discovered in this cycle: quarantined? passed on?
  integLog,           \* per integration run in this cycle: outcome, rewards
  call,               \* a library function called on its own: op, arguments, result
  gasPriceCache,      \* AvalancheClient.gasPriceCache: <<>> or <<[price, timestamp]>>
  clock               \* Date.now() of the chain client, in ms

vars == <<sched, stopFlag, cycles, now, dbInstance, active, cyclePromise, pc,
          ii, allPendingRewards, bundles, profitableBundles, run, executions,
          pending_rewards, wallets, failureCount, quarantinedUntil, queried,
          integLog, call, gasPriceCache, clock>>

schedVars == <<sched, stopFlag, cycles, now, dbInstance>>

dbVars == <<executions, pending_rewards, wallets>>

trackerVars == <<failureCount, quarantinedUntil>>

cycleVars == <<active, cyclePromise, pc, ii, allPendingRewards, bundles,
               profitableBundles, run, queried, integLog>>

\* state of the library components when they are exercised on their own
auxVars == <<call, gasPriceCache, clock>>

NoCall == [op |-> "none"]

AuxInit ==
  /\ call = NoCall
  /\ gasPriceCache = <<>>
  /\ clock = 0

FreshRun ==
  [step |-> "pending", idem |-> "none", sim |-> "none", sendLog |-> <<>>,
   result |-> "none", rec |-> "none"]

Init ==
  /\ sched = "Idle"
  /\ stopFlag = FALSE
  /\ cycles = 0
  /\ now = 0
  /\ dbInstance = "open"
  /\ active = 0
  /\ cyclePromise = "none"
  /\ pc = "idle"
  /\ ii = 1
  /\ allPendingRewards = <<>>
  /\ bundles = <<>>
  /\ profitableBundles = <<>>
  /\ run = <<>>
  /\ executions = <<>>
  /\ pending_rewards = {}
  /\ wallets = {}
  /\ failureCount = [w \in Wallets |-> 0]
  /\ quarantinedUntil = [w \in Wallets |-> 0]
  /\ queried = {}
  /\ integLog = <<>>
  /\ AuxInit

(***************************************************************************)
(* Quarantine tracker (engine/retry.ts).                                    *)
(***************************************************************************)
isWalletQuarantined(w) == quarantinedUntil[w] > now

recordFailure(w) ==
  /\ pc \in {"idle", "settled", "integrations"}
  /\ failureCount[w] < MaxFailures
  /\ failureCount' = [failureCount EXCEPT ![w] = @ + 1]
  /\ quarantinedUntil' =
       IF failureCount[w] + 1 >= QUARANTINE_THRESHOLD
       THEN [quarantinedUntil EXCEPT ![w] = now + QUARANTINE_WINDOW]
       ELSE quarantinedUntil
  /\ UNCHANGED <<auxVars, schedVars, dbVars, cycleVars>>

recordSuccess(w) ==
  /\ pc \in {"idle", "settled", "integrations"}
  /\ failureCount[w] > 0
  /\ failureCount' = [failureCount EXCEPT ![w] = 0]
  /\ quarantinedUntil' = [quarantinedUntil EXCEPT ![w] = 0]
  /\ UNCHANGED <<auxVars, schedVars, dbVars, cycleVars>>

(***************************************************************************)
(* Storage (state/db.ts).                                                   *)
(***************************************************************************)
initDb == IF dbInstance # "null" THEN "handle" ELSE "throws"

\* INSERT INTO wallets (address, chain) ... ON CONFLICT DO NOTHING
upsertWallet(tbl, w) ==
  IF \E row \in tbl : row.address = w THEN tbl
  ELSE tbl \cup {[address |-> w, last_claim_at |-> NoClaim]}

\* SELECT last_claim_at FROM wallets: null without a row or without a value
getWalletLastClaim(tbl, w) ==
  LET rows == {row \in tbl : row.address = w}
  IN IF rows = {} THEN NoClaim
     ELSE (CHOOSE row \in rows : TRUE).last_claim_at

\* INSERT OR REPLACE INTO pending_rewards: is_stale is not among the columns
recordPendingKeepMark(tbl, r) ==
  IF \E row \in tbl : row.id = r THEN tbl
  ELSE tbl \cup {[id |-> r, is_stale |-> FALSE,
                   last_claim_at |-> RewardTable[r].lastClaimAt]}

recordPending(tbl, r) ==
  {row \in tbl : row.id # r}
    \cup {[id |-> r, is_stale |-> FALSE,
           last_claim_at |-> RewardTable[r].lastClaimAt]}

RECURSIVE recordPendingAll(_, _)
recordPendingAll(tbl, rs) ==
  IF rs = <<>> THEN tbl
  ELSE recordPendingAll(recordPending(tbl, Head(rs)), Tail(rs))

\* INSERT INTO executions: the id column is the primary key
recordExecutionNeverThrows(tbl, bundle) == FALSE

recordExecutionThrows(tbl, bundle) == \E k \in DOMAIN tbl : tbl[k].id = bundle.id

recordExecution(tbl, bundle, success) ==
  Append(tbl, [id |-> bundle.id, success |-> success])

(***************************************************************************)
(* Scheduler (engine/scheduler.ts) and the cycle callback of main.          *)
(***************************************************************************)
\* the promise of `async () => { await runDiscoveryAndClaims(...) }`
CallbackSettledNoAwait == TRUE

CallbackSettled == cyclePromise \in {"resolved", "rejected"}

\* runDiscoveryAndClaims returns: its promise settles
Settle(outcome) ==
  /\ pc' = "settled"
  /\ cyclePromise' = outcome
  /\ active' = active - 1

\* catch at the end of runDiscoveryAndClaims: log, return normally
OuterRethrow == Settle("rejected")

OuterCatch == Settle("resolved")

Tick ==
  /\ sched = "Idle"
  /\ ~stopFlag
  /\ cycles < MaxCycles
  /\ sched' = "Running"
  /\ cycles' = cycles + 1
  /\ now' = now + 1
  /\ ii' = 1
  /\ allPendingRewards' = <<>>
  /\ bundles' = <<>>
  /\ profitableBundles' = <<>>
  /\ run' = <<>>
  /\ queried' = {}
  /\ integLog' = <<>>
  /\ IF initDb = "handle"
     THEN /\ pc' = "seeds"
          /\ cyclePromise' = "pending"
          /\ active' = active + 1
     ELSE /\ pc' = "settled"
          /\ cyclePromise' = "rejected"
          /\ active' = active
  /\ UNCHANGED <<auxVars, stopFlag, dbInstance, dbVars, trackerVars>>

SchedulerCycleComplete ==
  /\ sched = "Running"
  /\ CallbackSettled
  /\ sched' = "Idle"
  /\ UNCHANGED <<auxVars, stopFlag, cycles, now, dbInstance, dbVars, trackerVars,
                 cycleVars>>

StopSignal ==
  /\ ~stopFlag
  /\ stopFlag' = TRUE
  /\ UNCHANGED <<auxVars, sched, cycles, now, dbInstance, dbVars, trackerVars,
                 cycleVars>>

LoopExit ==
  /\ sched = "Idle"
  /\ stopFlag
  /\ sched' = "Stopped"
  /\ UNCHANGED <<auxVars, stopFlag, cycles, now, dbInstance, dbVars, trackerVars,
                 cycleVars>>

(***************************************************************************)
(* runDiscoveryAndClaims: seeds and discovery.                              *)
(***************************************************************************)
SeedStep ==
  /\ pc = "seeds"
  /\ \/ /\ wallets' = wallets \cup UNION {upsertWallet(wallets, w) : w \in SeedWallets}
        /\ pc' = "integrations"
        /\ UNCHANGED <<active, cyclePromise>>
     \/ /\ OuterCatch
        /\ UNCHANGED wallets
  /\ UNCHANGED <<auxVars, schedVars, trackerVars, executions, pending_rewards, ii,
                 allPendingRewards, bundles, profitableBundles, run, queried,
                 integLog>>

IntegrationWallets(key) ==
  {RewardTable[r].wallet : r \in {q \in RewardIds : RewardTable[q].protocol = key}}

\* what getPendingRewards can report for the wallets it is given
RewardsOf(key, ws) ==
  {r \in RewardIds : RewardTable[r].protocol = key /\ RewardTable[r].wallet \in ws}

\* wallets.filter(wallet => !isWalletQuarantined(wallet))
ActiveWalletsUnfiltered(ws) == ws

ActiveWallets(ws) == {w \in ws : ~isWalletQuarantined(w)}

\* catch of the integration loop: log, go on with the next integration
IntegrationUncaught(key, fetched) ==
  /\ integLog' = Append(integLog, [key |-> key, ok |-> FALSE, rewards |-> fetched])
  /\ UNCHANGED <<allPendingRewards, ii>>
  /\ OuterCatch

IntegrationCatch(key, fetched) ==
  /\ integLog' = Append(integLog, [key |-> key, ok |-> FALSE, rewards |-> fetched])
  /\ UNCHANGED allPendingRewards
  /\ ii' = ii + 1
  /\ UNCHANGED <<pc, cyclePromise, active>>

\* what the discovery loop did with each discovered wallet
QueryRecord(ws, passed) ==
  {[wallet |-> w, quarantined |-> isWalletQuarantined(w),
    passed |-> (w \in passed)] : w \in ws}

RunIntegration ==
  /\ pc = "integrations"
  /\ ii <= Len(Integrations)
  /\ LET key == Integrations[ii] IN
       \/ \* discoverWallets throws
          /\ IntegrationCatch(key, <<>>)
          /\ UNCHANGED <<queried, pending_rewards>>
       \/ \E ws \in {{}, IntegrationWallets(key)} :
            IF ws = {}
            THEN \* continue
                 /\ ii' = ii + 1
                 /\ integLog' = Append(integLog,
                                  [key |-> key, ok |-> TRUE, rewards |-> <<>>])
                 /\ UNCHANGED <<queried, pending_rewards, allPendingRewards,
                                pc, cyclePromise, active>>
            ELSE LET activeWallets == ActiveWallets(ws) IN
                 /\ queried' = queried \cup QueryRecord(ws, activeWallets)
                 /\ \/ \* getPendingRewards throws
                       /\ IntegrationCatch(key, <<>>)
                       /\ UNCHANGED pending_rewards
                    \/ \E S \in {{}, RewardsOf(key, activeWallets)} :
                         LET pendingRewards == SelectOrdered(RewardOrder, S) IN
                           \/ /\ pending_rewards' =
                                   recordPendingAll(pending_rewards, pendingRewards)
                              /\ allPendingRewards' =
                                   allPendingRewards \o pendingRewards
                              /\ integLog' = Append(integLog,
                                   [key |-> key, ok |-> TRUE,
                                    rewards |-> pendingRewards])
                              /\ ii' = ii + 1
                              /\ UNCHANGED <<pc, cyclePromise, active>>
                           \/ \* recordPending throws on row k + 1
                              \E k \in 0 .. (Len(pendingRewards) - 1) :
                                /\ pending_rewards' =
                                     recordPendingAll(pending_rewards,
                                        SubSeq(pendingRewards, 1, k))
                                /\ IntegrationCatch(key, pendingRewards)
  /\ UNCHANGED <<auxVars, schedVars, trackerVars, executions, wallets, bundles,
                 profitableBundles, run>>

(***************************************************************************)
(* runDiscoveryAndClaims: policy filter, bundling, profitability.           *)
(***************************************************************************)
\* allPendingRewards.filter(...): micro-dust and cooldown
PolicyFilterCooldownOnly(r) ==
  ~(/\ RewardTable[r].lastClaimAt # NoClaim
    /\ now - RewardTable[r].lastClaimAt[1] < COOLDOWN_DAYS)

PolicyFilter(r) ==
  /\ ~(RewardTable[r].amountUsd < MIN_ITEM_USD)
  /\ ~(/\ RewardTable[r].lastClaimAt # NoClaim
       /\ now - RewardTable[r].lastClaimAt[1] < COOLDOWN_DAYS)

\* the bundle as the profitability filter reads it: gas estimate filled in
WithGas(b, g) == [b EXCEPT !.estGasUsd = g, !.netUsd = b.totalUsd - g]

\* bundles.filter(...): gross and net thresholds
isProfitableGrossOnly(b) == ~(b.totalUsd < MIN_BUNDLE_GROSS_USD)

isProfitable(b) ==
  /\ ~(b.totalUsd < MIN_BUNDLE_GROSS_USD)
  /\ ~(b.netUsd < MIN_BUNDLE_NET_USD)

BundleStep ==
  /\ pc = "integrations"
  /\ ii > Len(Integrations)
  /\ LET filteredRewards == SelectSeq(allPendingRewards, PolicyFilter) IN
       IF allPendingRewards = <<>> \/ filteredRewards = <<>>
       THEN \* return
            /\ Settle("resolved")
            /\ UNCHANGED <<bundles, profitableBundles, run>>
       ELSE LET sized == sizeBundles(filteredRewards, MIN_BUNDLE_SIZE,
                                     MAX_BUNDLE_SIZE)
            IN \E g \in [DOMAIN sized -> GasSamples] :
                 /\ bundles' = [i \in DOMAIN sized |-> WithGas(sized[i], g[i])]
                 /\ profitableBundles' = SelectSeq(bundles', isProfitable)
                 /\ run' = [i \in DOMAIN profitableBundles' |-> FreshRun]
                 /\ pc' = "execute"
                 /\ UNCHANGED <<active, cyclePromise>>
  /\ UNCHANGED <<auxVars, schedVars, trackerVars, dbVars, ii, allPendingRewards,
                 queried, integLog>>

(***************************************************************************)
(* runDiscoveryAndClaims: the execution loop over profitableBundles.        *)
(***************************************************************************)
HasSuccess(tbl, id) == \E k \in DOMAIN tbl : tbl[k].id = id /\ tbl[k].success

InCooldown(b) ==
  \E k \in DOMAIN b.items :
    /\ RewardTable[b.items[k]].lastClaimAt # NoClaim
    /\ now - RewardTable[b.items[k]].lastClaimAt[1] < COOLDOWN_DAYS

\* engine/idempotency.ts
shouldSkipIdempotency(b) == HasSuccess(executions, b.id) \/ InCooldown(b)

\* if (shouldSkipIdempotency(bundle)) continue
IdempotencyGateOpen(b) == FALSE

IdempotencyGate(b) == shouldSkipIdempotency(b)

\* if (!simulationResult.ok) continue
SimulationPassedAlways(r) == TRUE

SimulationPassed(r) == r = "ok"

\* for (const bundle of profitableBundles) with awaited steps: bundle i is
\* entered when the body of every earlier bundle has completed
LoopMayAdvanceNoAwait(i) == TRUE

LoopMayAdvance(i) == \A j \in 1 .. (i - 1) : run[j].step = "done"

\* catch inside the loop body: log, go on with the next bundle
BundleUncaught(i, r) ==
  /\ run' = [run EXCEPT ![i] = [r EXCEPT !.step = "done"]]
  /\ OuterCatch

BundleCatch(i, r) ==
  /\ run' = [run EXCEPT ![i] = [r EXCEPT !.step = "done"]]
  /\ UNCHANGED <<pc, cyclePromise, active>>

\* engine/retry.ts, withExponentialBackoff: retry only transient failures,
\* at most maxAttempts invocations
ShouldRetryAny(outcome, attempt, maxAttempts) ==
  outcome # "success" /\ attempt < maxAttempts

ShouldRetry(outcome, attempt, maxAttempts) ==
  outcome = "transient" /\ attempt < maxAttempts

CheckIdempotency(i) ==
  /\ pc = "execute"
  /\ run[i].step = "pending"
  /\ \A j \in 1 .. (i - 1) : run[j].step # "pending"
  /\ LoopMayAdvance(i)
  /\ \/ \* shouldSkipIdempotency throws
        BundleCatch(i, [run[i] EXCEPT !.idem = "throw"])
     \/ /\ IF IdempotencyGate(profitableBundles[i])
           THEN run' = [run EXCEPT ![i].idem = "skip", ![i].step = "done"]
           ELSE run' = [run EXCEPT ![i].idem = "proceed", ![i].step = "sim"]
        /\ UNCHANGED <<pc, cyclePromise, active>>
  /\ UNCHANGED <<auxVars, schedVars, trackerVars, dbVars, ii, allPendingRewards,
                 bundles, profitableBundles, queried, integLog>>

Simulate(i) ==
  /\ pc = "execute"
  /\ run[i].step = "sim"
  /\ \/ \* dryRun throws
        BundleCatch(i, [run[i] EXCEPT !.sim = "throw"])
     \/ \E r \in {"ok", "fail"} :
          /\ IF SimulationPassed(r)
             THEN run' = [run EXCEPT ![i].sim = r, ![i].step = "send"]
             ELSE run' = [run EXCEPT ![i].sim = r, ![i].step = "done"]
          /\ UNCHANGED <<pc, cyclePromise, active>>
  /\ UNCHANGED <<auxVars, schedVars, trackerVars, dbVars, ii, allPendingRewards,
                 bundles, profitableBundles, queried, integLog>>

\* one invocation of execute(bundle, clients) by withExponentialBackoff
SendAttempt(i) ==
  /\ pc = "execute"
  /\ run[i].step = "send"
  /\ \E outcome \in {"success", "transient", "terminal"} :
       LET log == Append(run[i].sendLog, outcome) IN
         IF ShouldRetry(outcome, Len(log), RETRY_MAX_ATTEMPTS)
         THEN run' = [run EXCEPT ![i].sendLog = log]
         ELSE run' = [run EXCEPT ![i].sendLog = log,
                                 ![i].result = IF outcome = "success"
                                               THEN "success" ELSE "failure",
                                 ![i].step = "record"]
  /\ UNCHANGED <<auxVars, schedVars, trackerVars, dbVars, ii, allPendingRewards,
                 bundles, profitableBundles, queried, integLog,
                 pc, cyclePromise, active>>

\* recordExecutionResult(db, bundle, result)
RecordResult(i) ==
  /\ pc = "execute"
  /\ run[i].step = "record"
  /\ IF recordExecutionThrows(executions, profitableBundles[i])
     THEN /\ BundleCatch(i, [run[i] EXCEPT !.rec = "throw"])
          /\ UNCHANGED executions
     ELSE /\ executions' = recordExecution(executions, profitableBundles[i],
                                           run[i].result = "success")
          /\ run' = [run EXCEPT ![i].rec = "stored", ![i].step = "done"]
          /\ UNCHANGED <<pc, cyclePromise, active>>
  /\ UNCHANGED <<auxVars, schedVars, trackerVars, pending_rewards, wallets, ii,
                 allPendingRewards, bundles, profitableBundles, queried,
                 integLog>>

\* the loop is exhausted: runDiscoveryAndClaims returns
LoopEnd ==
  /\ pc = "execute"
  /\ \A i \in DOMAIN run : run[i].step = "done"
  /\ Settle("resolved")
  /\ UNCHANGED <<auxVars, schedVars, trackerVars, dbVars, ii, allPendingRewards,
                 bundles, profitableBundles, run, queried, integLog>>

(***************************************************************************)
(* Gas estimator (economics/gas.ts).  Results are in 0.000001 USD:          *)
(* avalanche gas in units of 1000, gas price in gwei, AVAX price in USD;    *)
(* tron energy in units of 1000, energyToTrx in 0.000001 TRX per energy     *)
(* unit, TRX price in 0.001 USD.  A JavaScript number is <<v>>, or <<>>     *)
(* when it is NaN.                                                          *)
(***************************************************************************)
GAS_ESTIMATES ==
  [avalanche |-> [baseClaim |-> 100, perExtraClaim |-> 80, gasPrice |-> 25,
                  nativePrice |-> 30],
   tron |-> [baseEnergy |-> 50, perExtraEnergy |-> 40, energyToTrx |-> 1000,
             trxPrice |-> 80]]

Num(v) == <<v>>

NaN == <<>>

BundleChain(b) == BundleKey(b)[1]

\* what a call of the chain client returns: it throws, it returns something
\* that is not a bigint / not a number, or it returns the value v
Throws == [kind |-> "throws"]

Malformed == [kind |-> "malformed"]

Ok(v) == [kind |-> "ok", v |-> v]

GasPriceSamples == {0, 25, 50}

NativeUsdSamples == {30, 80}

NoClient == [present |-> FALSE]

ChainClients ==
  {NoClient} \cup
  {[present |-> TRUE, chain |-> c, gasPrice |-> g, nativeUsd |-> u] :
     c \in {"avalanche", "tron"},
     g \in {Throws, Malformed} \cup {Ok(v) : v \in GasPriceSamples},
     u \in {Throws, Malformed} \cup {Ok(v) : v \in NativeUsdSamples}}

\* estimateBundleGasUsdSync, and the first version of estimateBundleGasUsd
estimateBundleGasUsdSync(bundle, chain) ==
  IF chain = "avalanche"
  THEN LET estimates == GAS_ESTIMATES.avalanche
           totalGas == estimates.baseClaim
                         + (Len(bundle.items) - 1) * estimates.perExtraClaim
       IN totalGas * estimates.gasPrice * estimates.nativePrice
  ELSE IF chain = "tron"
  THEN LET estimates == GAS_ESTIMATES.tron
           totalEnergy == estimates.baseEnergy
                            + (Len(bundle.items) - 1) * estimates.perExtraEnergy
       IN totalEnergy * estimates.energyToTrx * estimates.trxPrice
  ELSE 0

\* the outer catch of estimateBundleGasUsd
OuterCatchEstimate(bundle, chain) == Num(0)

EstimateAvalanche(bundle, chainClient) ==
  LET estimates == GAS_ESTIMATES.avalanche
      totalGas == estimates.baseClaim
                    + (Len(bundle.items) - 1) * estimates.perExtraClaim
      dynamic == chainClient.present /\ chainClient.chain = "avalanche"
      \* try { gasPriceWei = await chainClient.gasPrice() } catch { fallback }
      gasPriceWei == IF dynamic /\ chainClient.gasPrice # Throws
                     THEN chainClient.gasPrice
                     ELSE Ok(estimates.gasPrice)
      \* try { nativePrice = await chainClient.nativeUsd() } catch { }
      nativePrice == IF dynamic /\ chainClient.nativeUsd # Throws
                     THEN chainClient.nativeUsd
                     ELSE Ok(estimates.nativePrice)
  IN IF gasPriceWei = Malformed
     THEN \* BigInt(totalGas) * gasPriceWei throws a TypeError
          OuterCatchEstimate(bundle, "avalanche")
     ELSE IF nativePrice = Malformed
          THEN NaN
          ELSE Num(totalGas * gasPriceWei.v * nativePrice.v)

EstimateTron(bundle, chainClient) ==
  LET estimates == GAS_ESTIMATES.tron
      totalEnergy == estimates.baseEnergy
                       + (Len(bundle.items) - 1) * estimates.perExtraEnergy
      dynamic == chainClient.present /\ chainClient.chain = "tron"
      \* one try block: energyUnits = gasPrice(); if (energyUnits > 0n) ...;
      \* trxPrice = nativeUsd(); the catch keeps what was assigned before
      gasThrew == dynamic /\ chainClient.gasPrice = Throws
      energyToTrx == IF dynamic /\ chainClient.gasPrice.kind = "ok"
                        /\ chainClient.gasPrice.v > 0
                     THEN chainClient.gasPrice.v
                     ELSE estimates.energyToTrx
      trxPrice == IF dynamic /\ ~gasThrew /\ chainClient.nativeUsd # Throws
                  THEN chainClient.nativeUsd
                  ELSE Ok(estimates.trxPrice)
  IN IF trxPrice = Malformed
     THEN NaN
     ELSE Num(totalEnergy * energyToTrx * trxPrice.v)

estimateBundleGasUsd(bundle, chain, chainClient) ==
  IF chain = "avalanche" THEN EstimateAvalanche(bundle, chainClient)
  ELSE IF chain = "tron" THEN EstimateTron(bundle, chainClient)
  ELSE Num(0)

\* estimateBundleUsd(bundle): the estimate it returns and the bundle object
\* as the call leaves it
estimateBundleUsd(bundle) ==
  [out |-> estimateBundleGasUsdSync(bundle, BundleChain(bundle)),
   bundle |-> bundle]

\* the pipeline's variables, untouched while a library function is exercised
coreVars == <<schedVars, dbVars, trackerVars, cycleVars>>

\* item sequences without repetition, at most n long
ItemSeqs(n) ==
  UNION {{sq \in [1 .. k -> ItemIds] :
            \A i, j \in 1 .. k : i # j => sq[i] # sq[j]} : k \in 0 .. n}

\* non-empty bundles of items sharing one grouping key
KeyedBundles ==
  {MakeBundle(sq) : sq \in {q \in ItemSeqs(MaxItems) :
       q # <<>> /\ \A i \in DOMAIN q : GroupKey(q[i]) = GroupKey(q[1])}}

CallEstimateBundleGasUsd ==
  /\ call = NoCall
  /\ \E b \in KeyedBundles, c \in ChainClients :
       call' = [op |-> "estimateBundleGasUsd", bundle |-> b,
                chain |-> BundleChain(b), chainClient |-> c,
                out |-> estimateBundleGasUsd(b, BundleChain(b), c)]
  /\ UNCHANGED <<coreVars, gasPriceCache, clock>>

CallEstimateBundleUsd ==
  /\ call = NoCall
  /\ \E b \in KeyedBundles :
       call' = [op |-> "estimateBundleUsd", bundle |-> b,
                after |-> estimateBundleUsd(b).bundle,
                out |-> estimateBundleUsd(b).out]
  /\ UNCHANGED <<coreVars, gasPriceCache, clock>>

\* lists of bundles: an item sequence cut into pieces that each share a key
RECURSIVE SortedSeq(_)
SortedSeq(S) ==
  IF S = {} THEN <<>>
  ELSE LET m == CHOOSE x \in S : \A y \in S : x <= y
       IN <<m>> \o SortedSeq(S \ {m})

CutBundles(sq, C) ==
  LET st == SortedSeq({1} \cup {c + 1 : c \in C})
  IN [k \in DOMAIN st |->
        MakeBundle(SubSeq(sq, st[k],
                          IF k = Len(st) THEN Len(sq) ELSE st[k + 1] - 1))]

BundleLists ==
  {<<>>} \cup
  {bl \in UNION {{CutBundles(sq, C) : C \in SUBSET (1 .. (Len(sq) - 1))} :
                   sq \in ItemSeqs(MaxItems) \ {<<>>}} :
     \A k \in DOMAIN bl : bl[k] \in KeyedBundles}

CallGroupByContract ==
  /\ call = NoCall
  /\ \E items \in ItemSeqs(MaxItems) :
       call' = [op |-> "groupByContract", items |-> items,
                out |-> groupByContract(items)]
  /\ UNCHANGED <<coreVars, gasPriceCache, clock>>

CallSplitLargeBundles ==
  /\ call = NoCall
  /\ \E bl \in BundleLists, maxSize \in 1 .. MaxItems :
       call' = [op |-> "splitLargeBundles", bundles |-> bl,
                maxSize |-> maxSize, out |-> splitLargeBundles(bl, maxSize)]
  /\ UNCHANGED <<coreVars, gasPriceCache, clock>>

\* mergeBundles runs on what splitLargeBundles returned: no bundle is above
\* maxSize
CallMergeBundles ==
  /\ call = NoCall
  /\ \E bl \in BundleLists, maxSize \in 1 .. MaxItems :
       \E minSize \in 1 .. maxSize :
         /\ \A k \in DOMAIN bl : Len(bl[k].items) <= maxSize
         /\ call' = [op |-> "mergeBundles", bundles |-> bl,
                      minSize |-> minSize, maxSize |-> maxSize,
                      out |-> mergeBundlesUpTo(bl, minSize, maxSize)]
  /\ UNCHANGED <<coreVars, gasPriceCache, clock>>

\* the three steps as the cycle chains them, with the policy's sizes as inputs
CallSizeBundles ==
  /\ call = NoCall
  /\ \E items \in ItemSeqs(MaxItems) \ {<<>>}, maxSize \in 1 .. MaxItems :
       \E minSize \in 1 .. maxSize :
         call' = [op |-> "sizeBundles", items |-> items, minSize |-> minSize,
                  maxSize |-> maxSize,
                  out |-> sizeBundles(items, minSize, maxSize)]
  /\ UNCHANGED <<coreVars, gasPriceCache, clock>>

BundlerNext ==
  \/ CallGroupByContract
  \/ CallSplitLargeBundles
  \/ CallMergeBundles
  \/ CallSizeBundles

BundlerSpec == Init /\ [][BundlerNext]_vars

(***************************************************************************)
(* Storage on its own (state/db.ts): recordPending and markClaimed on the   *)
(* pending_rewards table.  pending_rewards is the committed table, what a   *)
(* reader or a restarted process sees; call.work is the table as the        *)
(* statements of the open transaction have left it.                         *)
(***************************************************************************)
ClaimTimes == {1, 2}

\* the reward ids and the bundles the storage functions are exercised on
StoredIds == {"r2", "r3"}

LedgerBundles == {MakeBundle(<<"r3">>), MakeBundle(<<"r1", "r2">>)}

\* UPDATE pending_rewards SET is_stale = TRUE, last_claim_at = ? WHERE id = ?
markRow(tbl, id, at) ==
  {IF row.id = id
   THEN [row EXCEPT !.is_stale = TRUE, !.last_claim_at = <<at>>]
   ELSE row : row \in tbl}

\* the wallets table after the UPDATEs of markClaimed, which name
\* pending_rewards only
WalletsAfterClaimTouched(tbl, ids, at) ==
  {IF \E k \in DOMAIN ids : RewardTable[ids[k]].wallet = row.address
   THEN [row EXCEPT !.last_claim_at = <<at>>]
   ELSE row : row \in tbl}

WalletsAfterClaim(tbl, ids, at) == tbl

\* db.transaction(fn): what fn's statements wrote shows at COMMIT only
VisibleAfterStepAutocommit(committed, work) == work

VisibleAfterStep(committed, work) == committed

Running == call.op = "markClaimed" /\ call.status = "running"

StoreRecordPending ==
  /\ ~Running
  /\ \E r \in StoredIds :
       /\ pending_rewards' = recordPending(pending_rewards, r)
       /\ call' = [op |-> "recordPending", id |-> r,
                    before |-> pending_rewards]
  /\ UNCHANGED <<schedVars, trackerVars, cycleVars, executions, wallets,
                 gasPriceCache, clock>>

\* markClaimed(db, rewardIds, claimedAt) up to BEGIN
MarkClaimedBegin ==
  /\ ~Running
  /\ \E ids \in {sq \in ItemSeqs(2) : Range(sq) \subseteq StoredIds},
        at \in ClaimTimes :
       call' = [op |-> "markClaimed", ids |-> ids, at |-> at, done |-> 0,
                before |-> pending_rewards, work |-> pending_rewards,
                status |-> "running"]
  /\ UNCHANGED <<coreVars, gasPriceCache, clock>>

\* stmt.run(claimedAt, id) for the next id: it updates the row, or it throws
\* and the transaction wrapper rolls back and rethrows
MarkClaimedStep ==
  /\ Running
  /\ call.done < Len(call.ids)
  /\ \/ LET work == markRow(call.work, call.ids[call.done + 1], call.at) IN
          /\ call' = [call EXCEPT !.done = @ + 1, !.work = work]
          /\ pending_rewards' = VisibleAfterStep(pending_rewards, work)
     \/ /\ call' = [call EXCEPT !.status = "rolledback"]
        /\ UNCHANGED pending_rewards
  /\ UNCHANGED <<schedVars, trackerVars, cycleVars, executions, wallets,
                 gasPriceCache, clock>>

\* the loop is over: COMMIT
MarkClaimedCommit ==
  /\ Running
  /\ call.done = Len(call.ids)
  /\ pending_rewards' = call.work
  /\ wallets' = WalletsAfterClaim(wallets, call.ids, call.at)
  /\ call' = [call EXCEPT !.status = "committed"]
  /\ UNCHANGED <<schedVars, trackerVars, cycleVars, executions,
                 gasPriceCache, clock>>

\* the process dies inside the transaction; the database file keeps the
\* committed table
Crash ==
  /\ Running
  /\ call' = [call EXCEPT !.status = "crashed"]
  /\ UNCHANGED <<coreVars, gasPriceCache, clock>>

\* recordExecution(db, bundle, result): the INSERT stores the row, or it
\* throws on the primary key and stores nothing
StoreRecordExecution ==
  /\ ~Running
  /\ \E bundle \in LedgerBundles, success \in BOOLEAN :
       LET threw == recordExecutionThrows(executions, bundle) IN
         /\ executions' = IF threw THEN executions
                           ELSE recordExecution(executions, bundle, success)
         /\ call' = [op |-> "recordExecution", bundle |-> bundle,
                      success |-> success, before |-> executions,
                      threw |-> threw]
  /\ UNCHANGED <<schedVars, trackerVars, cycleVars, pending_rewards, wallets,
                 gasPriceCache, clock>>

\* upsertWallet(db, wallet)
StoreUpsertWallet ==
  /\ ~Running
  /\ \E w \in Wallets :
       /\ wallets' = upsertWallet(wallets, w)
       /\ call' = [op |-> "upsertWallet", wallet |-> w, before |-> wallets]
  /\ UNCHANGED <<schedVars, trackerVars, cycleVars, executions,
                 pending_rewards, gasPriceCache, clock>>

StorageNext ==
  \/ StoreUpsertWallet
  \/ StoreRecordPending
  \/ StoreRecordExecution
  \/ MarkClaimedBegin
  \/ MarkClaimedStep
  \/ MarkClaimedCommit
  \/ Crash

StorageSpec == Init /\ [][StorageNext]_vars

(***************************************************************************)
(* AvalancheClient (chains/avalanche.ts).  Gas prices are in gwei.          *)
(***************************************************************************)
CACHE_TTL_MS == 30000

ClockStepMs == 10000

DefaultGasPrice == 25

\* what provider.getFeeData() resolves to; an absent field is <<>>
FeeDataSamples ==
  {[gasPrice |-> <<30>>, maxFeePerGas |-> <<>>],
   [gasPrice |-> <<50>>, maxFeePerGas |-> <<40>>],
   [gasPrice |-> <<>>, maxFeePerGas |-> <<40>>],
   [gasPrice |-> <<>>, maxFeePerGas |-> <<>>]}

\* if (this.gasPriceCache) { age = Date.now() - timestamp; if (age < TTL) ... }
CacheFresh ==
  gasPriceCache # <<>> /\ clock - gasPriceCache[1].timestamp < CACHE_TTL_MS

\* the catch of gasPrice(): cached value if available, otherwise the default
GasPriceRethrow ==
  [rejected |-> TRUE, out |-> 0]

GasPriceCatch ==
  [rejected |-> FALSE,
   out |-> IF gasPriceCache # <<>> THEN gasPriceCache[1].price
           ELSE DefaultGasPrice]

PriceOf(feeData) ==
  IF feeData.gasPrice # <<>> THEN feeData.gasPrice[1]
  ELSE IF feeData.maxFeePerGas # <<>> THEN feeData.maxFeePerGas[1]
  ELSE DefaultGasPrice

\* the record of a gasPrice() call: when, what it returned, whether it asked
\* the network and whether that failed, the cache it found, the call before
GasPriceCall(r, asked, failed) ==
  [op |-> "gasPrice", at |-> clock, out |-> r.out, rejected |-> r.rejected,
   queried |-> asked, failed |-> failed, cacheBefore |-> gasPriceCache,
   prev |-> IF call.op = "gasPrice"
            THEN <<[at |-> call.at, out |-> call.out, failed |-> call.failed]>>
            ELSE <<>>]

\* the ways a gasPrice() call can go from the current cache and clock: what
\* it returns, whether it asked the network, whether that failed, the cache
\* it leaves
GasPriceOutcomes ==
  IF CacheFresh
  THEN {[r |-> [rejected |-> FALSE, out |-> gasPriceCache[1].price],
         asked |-> FALSE, failed |-> FALSE, cache |-> gasPriceCache]}
  ELSE {[r |-> [rejected |-> FALSE, out |-> PriceOf(feeData)],
         asked |-> TRUE, failed |-> FALSE,
         cache |-> <<[price |-> PriceOf(feeData), timestamp |-> clock]>>] :
          feeData \in FeeDataSamples}
       \cup \* getFeeData rejects
       {[r |-> GasPriceCatch, asked |-> TRUE, failed |-> TRUE,
         cache |-> gasPriceCache]}

\* the operations of the client that are exercised
ClientOps == {"none", "gasPrice", "simulate", "sendRaw"}

gasPrice ==
  /\ call.op \in ClientOps
  /\ \E o \in GasPriceOutcomes :
       /\ call' = GasPriceCall(o.r, o.asked, o.failed)
       /\ gasPriceCache' = o.cache
  /\ UNCHANGED <<coreVars, clock>>

\* nativeUsd(): the placeholder AVAX price, in USD
nativeUsd == 30

\* balances of the wallet, in 0.000001 AVAX (1000 gwei), and what
\* provider.getBalance can do
BalanceSamples == {0, 524, 525, 2500, 20000}

BalanceReplies == {Throws} \cup {Ok(v) : v \in BalanceSamples}

\* getBalance was not called
NoReply == [kind |-> "none"]

\* the bundles the client is handed: one, two and three items
ClientBundles ==
  {MakeBundle(<<"r3">>), MakeBundle(<<"r1", "r2">>),
   MakeBundle(<<"r1", "r4", "r5">>)}

\* messages of the errors the provider raises
ErrorMessages == {"", "timeout"}

\* gas in units of 1000: simulate's estimate and sendRaw's gas limit
SimulateEstimatedGas(bundle) == 21 * Len(bundle.items)

SendRawGasLimit(bundle) == 100 * Len(bundle.items)

\* the catch of simulate(): the error becomes the reason
SimulateRethrow(msg) ==
  [threw |-> TRUE, out |-> [ok |-> FALSE, reason |-> ""]]

SimulateCatch(msg) ==
  [threw |-> FALSE,
   out |-> [ok |-> FALSE, reason |-> "Simulation failed: " \o msg]]

SimulateReturn(out) == [threw |-> FALSE, out |-> out]

\* if (balance < gasRequired) return { ok: false, reason } else { ok: true }
BalanceCheck(balance, gasRequired) ==
  IF balance < gasRequired
  THEN SimulateReturn([ok |-> FALSE,
                       reason |-> "Insufficient balance for gas. Required: "])
  ELSE SimulateReturn([ok |-> TRUE])

\* the record of a simulate(bundle) call: the client's wallet, what the
\* provider answered, the gas price used, the provider methods invoked
SimulateCall(bundle, wallet, balance, price, rpc, r) ==
  [op |-> "simulate", bundle |-> bundle, wallet |-> wallet,
   balance |-> balance, gasPrice |-> price, rpc |-> rpc,
   threw |-> r.threw, out |-> r.out]

\* the client was constructed with or without a private key
simulate ==
  /\ call.op \in ClientOps
  /\ \E bundle \in ClientBundles, wallet \in BOOLEAN :
       IF ~wallet
       THEN /\ call' = SimulateCall(bundle, wallet, NoReply, <<>>, {},
                          SimulateReturn([ok |-> FALSE,
                             reason |-> "No wallet configured for simulation"]))
            /\ UNCHANGED gasPriceCache
       ELSE \E balance \in BalanceReplies :
              IF balance = Throws
              THEN /\ \E msg \in ErrorMessages :
                        call' = SimulateCall(bundle, wallet, balance, <<>>,
                                             {"getBalance"}, SimulateCatch(msg))
                   /\ UNCHANGED gasPriceCache
              ELSE \E o \in GasPriceOutcomes :
                     LET rpc == {"getBalance"}
                                  \cup (IF o.asked THEN {"getFeeData"} ELSE {})
                     IN /\ gasPriceCache' = o.cache
                        /\ call' =
                             IF o.r.rejected
                             THEN SimulateCall(bundle, wallet, balance, <<>>,
                                               rpc, SimulateCatch("gas price"))
                             ELSE SimulateCall(bundle, wallet, balance,
                                    <<o.r.out>>, rpc,
                                    BalanceCheck(balance.v,
                                      o.r.out * SimulateEstimatedGas(bundle)))
  /\ UNCHANGED <<coreVars, clock>>

\* sendRaw(bundle): the mock transaction; gasUsd in 0.000001 USD
sendRaw ==
  /\ call.op \in ClientOps
  /\ \E bundle \in ClientBundles, wallet \in BOOLEAN :
       IF ~wallet
       THEN /\ call' = [op |-> "sendRaw", bundle |-> bundle, wallet |-> wallet,
                        gasPrice |-> <<>>, gasLimit |-> <<>>,
                        out |-> [success |-> FALSE,
                                 error |-> "No wallet configured for execution",
                                 claimedUsd |-> 0]]
            /\ UNCHANGED gasPriceCache
       ELSE \E o \in GasPriceOutcomes :
              LET gasLimit == SendRawGasLimit(bundle)
                  gasUsed == (gasLimit * 7) \div 10
              IN /\ gasPriceCache' = o.cache
                 /\ call' =
                      IF o.r.rejected
                      THEN [op |-> "sendRaw", bundle |-> bundle,
                            wallet |-> wallet, gasPrice |-> <<>>,
                            gasLimit |-> <<>>,
                            out |-> [success |-> FALSE, error |-> "gas price",
                                     claimedUsd |-> 0]]
                      ELSE [op |-> "sendRaw", bundle |-> bundle,
                            wallet |-> wallet, gasPrice |-> <<o.r.out>>,
                            gasLimit |-> <<gasLimit>>,
                            out |-> [success |-> TRUE, gasUsed |-> gasUsed,
                                     gasUsd |-> gasUsed * o.r.out * nativeUsd,
                                     claimedUsd |-> bundle.totalUsd]]
  /\ UNCHANGED <<coreVars, clock>>

ClockAdvance ==
  /\ clock < MaxClockSteps * ClockStepMs
  /\ clock' = clock + ClockStepMs
  /\ UNCHANGED <<coreVars, call, gasPriceCache>>

ClientNext ==
  \/ gasPrice
  \/ simulate
  \/ sendRaw
  \/ ClockAdvance

ClientSpec == Init /\ [][ClientNext]_vars

GasNext ==
  \/ CallEstimateBundleGasUsd
  \/ CallEstimateBundleUsd

GasSpec == Init /\ [][GasNext]_vars

(***************************************************************************)
(* Specification.                                                           *)
(***************************************************************************)
Next ==
  \/ Tick
  \/ SchedulerCycleComplete
  \/ StopSignal
  \/ LoopExit
  \/ SeedStep
  \/ RunIntegration
  \/ BundleStep
  \/ \E i \in DOMAIN run : CheckIdempotency(i)
  \/ \E i \in DOMAIN run : Simulate(i)
  \/ \E i \in DOMAIN run : SendAttempt(i)
  \/ \E i \in DOMAIN run : RecordResult(i)
  \/ LoopEnd

Spec == Init /\ [][Next]_vars

\* the pipeline together with the callers of the quarantine tracker
NextTracker ==
  \/ Next
  \/ \E w \in FailingWallets : recordFailure(w)
  \/ \E w \in FailingWallets : recordSuccess(w)

TrackerSpec == Init /\ [][NextTracker]_vars

TypeOK ==
  /\ sched \in {"Idle", "Running", "Stopped"}
  /\ active \in 0 .. 1
  /\ pc \in {"idle", "seeds", "integrations", "execute", "settled"}

(***************************************************************************)
(* Derived notions used by the properties.                                  *)
(***************************************************************************)
Last(sq) == sq[Len(sq)]

\* an error was raised inside the current cycle
CycleError ==
  \/ \E k \in DOMAIN integLog : ~integLog[k].ok
  \/ \E i \in DOMAIN run : "throw" \in {run[i].idem, run[i].sim, run[i].rec}
  \/ pc = "settled" /\ integLog = <<>>

InFlight(i) == run[i].step \in {"sim", "send", "record"}

RECURSIVE Contributions(_)
Contributions(log) ==
  IF log = <<>> THEN <<>>
  ELSE (IF Head(log).ok THEN Head(log).rewards ELSE <<>>)
       \o Contributions(Tail(log))

BundledItems == UNION {Range(bundles[k].items) : k \in DOMAIN bundles}

BundleWallets(b) == {RewardTable[b.items[k]].wallet : k \in DOMAIN b.items}

(***************************************************************************)
(* C1: the ledger never holds two successful records of one bundle id, and  *)
(* a bundle whose id has a successful record is skipped at the idempotency  *)
(* check: it gets past the check only in the run that stored that record,   *)
(* and a skipped bundle is neither simulated nor sent nor recorded.         *)
(***************************************************************************)
C1_Idempotent ==
  /\ \A j, k \in DOMAIN executions :
       (j # k /\ executions[j].id = executions[k].id)
         => ~(executions[j].success /\ executions[k].success)
  /\ \A i \in DOMAIN run :
       /\ (run[i].idem = "proceed"
             /\ HasSuccess(executions, profitableBundles[i].id))
            => (run[i].rec = "stored" /\ run[i].result = "success")
       /\ run[i].idem = "skip"
            => (run[i].sim = "none" /\ run[i].sendLog = <<>>
                  /\ run[i].rec = "none")

C1_Witness ==
  /\ cycles >= 2
  /\ \E i \in DOMAIN run :
       /\ run[i].idem = "skip"
       /\ HasSuccess(executions, profitableBundles[i].id)

C3_SendAfterSimulate ==
  \A i \in DOMAIN run :
    /\ (run[i].step \in {"send", "record"} \/ run[i].sendLog # <<>>
          \/ run[i].result # "none")
         => run[i].sim = "ok"
    /\ run[i].sim \in {"fail", "throw"}
         => (run[i].sendLog = <<>> /\ run[i].step = "done")

C3_Witness ==
  \E i, j \in DOMAIN run :
    /\ run[i].sim = "fail"
    /\ run[j].sim = "ok"
    /\ run[j].sendLog # <<>>

(***************************************************************************)
(* C4: bundles are processed one after another: a bundle is entered only    *)
(* when every earlier bundle is done, so at most one bundle is in flight.   *)
(***************************************************************************)
C4_Sequential ==
  /\ \A i, j \in DOMAIN run :
       (i < j /\ run[j].step # "pending") => run[i].step = "done"
  /\ Cardinality({i \in DOMAIN run : InFlight(i)}) <= 1

C4_Witness ==
  \E i, j \in DOMAIN run :
    /\ i < j
    /\ run[i].rec = "stored"
    /\ InFlight(j)

(***************************************************************************)
(* C5: at most one invocation of the cycle function is active; while the    *)
(* scheduler is not Running no cycle is in flight, so a tick starts a       *)
(* cycle only when none is in flight.                                       *)
(***************************************************************************)
C5_NoOverlap ==
  /\ active <= 1
  /\ sched # "Running" => active = 0
  /\ pc \in {"seeds", "integrations", "execute"} => active = 1

C5_Witness ==
  /\ cycles >= 2
  /\ active = 1
  /\ pc = "execute"

(***************************************************************************)
(* C6: an error inside a cycle never crashes the loop: it is caught inside  *)
(* the cycle, whose promise resolves; the scheduler leaves Running only for *)
(* Idle, with no cycle in flight; the loop stops only on the stop signal.   *)
(***************************************************************************)
C6_ErrorNeverCrashesLoop ==
  [][/\ (sched = "Running" /\ sched' # "Running")
          => (sched' = "Idle" /\ cyclePromise = "resolved" /\ active' = 0)
     /\ cyclePromise' # "rejected"
     /\ sched' = "Stopped" => stopFlag]_vars

\* after a cycle that raised an error the loop is idle and will tick again
C6_Witness ==
  /\ CycleError
  /\ sched = "Idle"
  /\ ~stopFlag
  /\ cycles < MaxCycles

(***************************************************************************)
(* C7: withExponentialBackoff invokes the operation at most maxAttempts     *)
(* times; every invocation but the last failed transiently; it returns      *)
(* success iff the last invocation succeeded, and failure either at once on *)
(* a terminal failure or after exactly maxAttempts transient failures.      *)
(***************************************************************************)
C7_Retry ==
  \A i \in DOMAIN run :
    LET log == run[i].sendLog IN
      /\ Len(log) <= RETRY_MAX_ATTEMPTS
      /\ \A k \in 1 .. (Len(log) - 1) : log[k] = "transient"
      /\ run[i].step = "send"
           => (Len(log) < RETRY_MAX_ATTEMPTS
                 /\ \A k \in DOMAIN log : log[k] = "transient")
      /\ run[i].result = "success" => Last(log) = "success"
      /\ run[i].result = "failure"
           => \/ Last(log) = "terminal"
              \/ Last(log) = "transient" /\ Len(log) = RETRY_MAX_ATTEMPTS
      /\ (log # <<>> /\ run[i].step # "send") => run[i].result # "none"

\* two transient failures, then success: three invocations
C7_Witness ==
  \E i \in DOMAIN run :
    /\ Len(run[i].sendLog) >= 2
    /\ Last(run[i].sendLog) = "success"
    /\ run[i].result = "success"

(***************************************************************************)
(* C8: when the cycle has ended, every profitable bundle has gone through   *)
(* its own idempotency check, its simulation unless skipped, and its        *)
(* execution and recording if the simulation passed, whatever happened to   *)
(* the bundles before it.                                                   *)
(***************************************************************************)
C8_FailureDoesNotBlock ==
  pc = "settled" =>
    \A i \in DOMAIN run :
      /\ run[i].idem # "none"
      /\ run[i].idem = "proceed" => run[i].sim # "none"
      /\ run[i].sim = "ok" => (run[i].result # "none" /\ run[i].rec # "none")

C8_Witness ==
  /\ pc = "settled"
  /\ \E i, j \in DOMAIN run :
       /\ i < j
       /\ "throw" \in {run[i].idem, run[i].sim, run[i].rec}
       /\ run[j].rec = "stored"

(***************************************************************************)
(* C9: an integration that throws contributes no reward item, and the cycle *)
(* goes on: every integration is run, the rewards of the others are         *)
(* collected, and all of them that pass the policy filter are bundled.      *)
(***************************************************************************)
C9_IntegrationFailureIsolated ==
  /\ allPendingRewards = Contributions(integLog)
  /\ (pc \in {"execute", "settled"} /\ integLog # <<>>)
       => Len(integLog) = Len(Integrations)
  /\ pc = "execute"
       => BundledItems = {r \in Range(allPendingRewards) : PolicyFilter(r)}

C9_Witness ==
  /\ pc = "execute"
  /\ \E k \in DOMAIN integLog :
       ~integLog[k].ok /\ integLog[k].rewards # <<>>
  /\ profitableBundles # <<>>

(***************************************************************************)
(* C10: getPendingRewards is never given a wallet that isWalletQuarantined  *)
(* reports at that moment, and every collected reward belongs to a wallet   *)
(* that was handed over while not quarantined.                              *)
(***************************************************************************)
C10_QuarantinedSkipped ==
  /\ \A q \in queried : q.passed <=> ~q.quarantined
  /\ \A r \in Range(allPendingRewards) \cup BundledItems :
       \E q \in queried :
         q.wallet = RewardTable[r].wallet /\ q.passed /\ ~q.quarantined

C10_Witness ==
  /\ \E q \in queried : q.quarantined /\ ~q.passed
  /\ \E q \in queried : q.passed
  /\ profitableBundles # <<>>

(***************************************************************************)
(* C11: the pipeline reports execution results to the quarantine tracker:   *)
(* once the loop body has recorded a bundle's result, a failed execution    *)
(* has been counted against every wallet of the bundle, and a successful    *)
(* one has left the wallet with no failures and not quarantined.            *)
(***************************************************************************)
C11_TrackerUpdated ==
  \A i \in DOMAIN run :
    run[i].rec # "none" =>
      \A w \in BundleWallets(profitableBundles[i]) :
        IF run[i].result = "failure"
        THEN failureCount[w] >= 1
        ELSE failureCount[w] = 0 /\ ~isWalletQuarantined(w)

(***************************************************************************)
(* C12: whenever the chain client's gasPrice or nativeUsd throws or returns *)
(* a malformed value, estimateBundleGasUsd returns, for a non-empty bundle  *)
(* on a supported chain, the static fallback cost of that chain, which is   *)
(* not 0.                                                                   *)
(***************************************************************************)
AdapterFailed(c, chain) ==
  /\ c.present
  /\ c.chain = chain
  /\ c.gasPrice \in {Throws, Malformed} \/ c.nativeUsd \in {Throws, Malformed}

C12_NeverFree ==
  (call.op = "estimateBundleGasUsd" /\ AdapterFailed(call.chainClient, call.chain))
    => /\ call.out = Num(estimateBundleGasUsdSync(call.bundle, call.chain))
       /\ call.out # Num(0)

(***************************************************************************)
(* C13: estimateBundleUsd leaves its estimate in the bundle it is given:    *)
(* after the call the bundle's estGasUsd (0.1 USD) is the returned estimate *)
(* (0.000001 USD), not the initial 0, and netUsd = totalUsd - estGasUsd.    *)
(***************************************************************************)
C13_EstGasFilled ==
  call.op = "estimateBundleUsd" =>
    /\ call.after.estGasUsd * 100000 = call.out
    /\ call.after.estGasUsd # 0
    /\ call.after.netUsd = call.after.totalUsd - call.after.estGasUsd

(***************************************************************************)
(* Notions of the bundler properties: the items of a list of bundles in     *)
(* order, and two items sharing (chain, protocol, claimTo).                 *)
(***************************************************************************)
RECURSIVE Flatten(_)
Flatten(bl) ==
  IF bl = <<>> THEN <<>> ELSE Head(bl).items \o Flatten(Tail(bl))

SameKey(r, q) ==
  /\ RewardTable[r].chain = RewardTable[q].chain
  /\ RewardTable[r].protocol = RewardTable[q].protocol
  /\ RewardTable[r].claimTo = RewardTable[q].claimTo

KeyConsistent(b) == \A i, j \in DOMAIN b.items : SameKey(b.items[i], b.items[j])

(***************************************************************************)
(* C14: groupByContract puts every input item in exactly one bundle exactly *)
(* once; the items of a bundle share (chain, protocol, claimTo); the items  *)
(* sharing a key are all in one bundle, in input order; no input, no        *)
(* bundle.                                                                  *)
(***************************************************************************)
C14_GroupByContract ==
  call.op = "groupByContract" =>
    LET items == call.items
        out == call.out
    IN /\ Len(Flatten(out)) = Len(items)
       /\ \A i \in DOMAIN items :
            Cardinality({<<k, j>> \in (DOMAIN out) \X (1 .. Len(items)) :
                           /\ j \in DOMAIN out[k].items
                           /\ out[k].items[j] = items[i]}) = 1
       /\ \A k \in DOMAIN out :
            /\ out[k].items # <<>>
            /\ KeyConsistent(out[k])
            /\ out[k].items =
                 SelectSeq(items, LAMBDA r : SameKey(r, out[k].items[1]))
       /\ \A k, l \in DOMAIN out :
            k # l => ~SameKey(out[k].items[1], out[l].items[1])
       /\ items = <<>> => out = <<>>

\* interleaved keys: [r1, r3, r2] gives [r1, r2] and [r3]
C14_Witness ==
  /\ call.op = "groupByContract"
  /\ Len(call.items) >= 3
  /\ Len(call.out) = 2
  /\ SameKey(call.items[1], call.items[3])
  /\ ~SameKey(call.items[1], call.items[2])

(***************************************************************************)
(* C15: every bundle splitLargeBundles(bundles, N) returns has at most N    *)
(* items and a totalUsd that is the sum of its own items; the output is,    *)
(* bundle by bundle and in order, a run of chunks whose concatenation is    *)
(* that bundle's item sequence.                                             *)
(***************************************************************************)
RECURSIVE Reproduces(_, _)
Reproduces(original, out) ==
  IF original = <<>> THEN out = <<>>
  ELSE \E k \in 1 .. Len(out) :
         /\ Flatten(SubSeq(out, 1, k)) = Head(original).items
         /\ Reproduces(Tail(original), SubSeq(out, k + 1, Len(out)))

C15_SplitLargeBundles ==
  call.op = "splitLargeBundles" =>
    /\ \A k \in DOMAIN call.out :
         /\ Len(call.out[k].items) <= call.maxSize
         /\ call.out[k].items # <<>>
         /\ call.out[k].totalUsd = SumUsd(call.out[k].items)
    /\ Reproduces(call.bundles, call.out)

\* a bundle of three items split at N = 2, followed by another bundle
C15_Witness ==
  /\ call.op = "splitLargeBundles"
  /\ call.maxSize = 2
  /\ Len(call.bundles) = 2
  /\ Len(call.bundles[1].items) = 3
  /\ Len(call.out) = 3

(***************************************************************************)
(* C16: mergeBundles, given bundles within maxSize, returns bundles whose   *)
(* items share one key and that are within maxSize; no two undersized       *)
(* bundles of one key remain that fit together within maxSize; an           *)
(* undersized bundle with no undersized bundle of its key beside it is      *)
(* returned unchanged.                                                      *)
(***************************************************************************)
C16_MergeBundles ==
  call.op = "mergeBundles" =>
    LET out == call.out
        bl == call.bundles
    IN /\ \A k \in DOMAIN out :
            /\ KeyConsistent(out[k])
            /\ Len(out[k].items) <= call.maxSize
       /\ \A k, l \in DOMAIN out :
            (/\ k # l
             /\ SameKey(out[k].items[1], out[l].items[1])
             /\ Len(out[k].items) < call.minSize
             /\ Len(out[l].items) < call.minSize)
              => Len(out[k].items) + Len(out[l].items) > call.maxSize
       /\ \A i \in DOMAIN bl :
            (/\ Len(bl[i].items) < call.minSize
             /\ \A j \in DOMAIN bl \ {i} :
                  ~(/\ SameKey(bl[i].items[1], bl[j].items[1])
                    /\ Len(bl[j].items) < call.minSize))
              => bl[i] \in Range(out)

\* two undersized bundles of one key merged across a bundle of another key,
\* which stays as it was
C16_Witness ==
  /\ call.op = "mergeBundles"
  /\ Len(call.bundles) = 3
  /\ Len(call.out) = 2
  /\ ~SameKey(call.bundles[1].items[1], call.bundles[2].items[1])
  /\ Len(call.bundles[2].items) < call.minSize
  /\ call.bundles[2] \in Range(call.out)
  /\ call.out[1].items = call.bundles[1].items \o call.bundles[3].items

(***************************************************************************)
(* C17: at every moment of a markClaimed(ids, at) call and after it,        *)
(* whether it returned, threw or the process crashed, the stored table      *)
(* either has every listed row stale with last_claim_at = at and the other  *)
(* rows as before, or is the table as it was before the call.               *)
(***************************************************************************)
AllMarked(tbl, before, ids, at) ==
  /\ {row.id : row \in tbl} = {row.id : row \in before}
  /\ \A row \in tbl :
       IF row.id \in Range(ids)
       THEN row.is_stale /\ row.last_claim_at = <<at>>
       ELSE row \in before

C17_MarkClaimedAtomic ==
  /\ (call.op = "markClaimed" /\ call.status # "committed")
       => pending_rewards = call.before
  /\ (call.op = "markClaimed" /\ call.status = "committed")
     => AllMarked(pending_rewards, call.before, call.ids, call.at)

\* a call over two stored rows that failed after its first UPDATE
C17_Witness ==
  /\ call.op = "markClaimed"
  /\ call.status \in {"rolledback", "crashed"}
  /\ call.done = 1
  /\ Len(call.ids) = 2
  /\ Range(call.ids) \subseteq {row.id : row \in pending_rewards}
  /\ call.work # pending_rewards

(***************************************************************************)
(* C18: once the loop body is done with a bundle whose simulation returned  *)
(* ok = false or whose execution failed, the executions table holds a       *)
(* failure record with that bundle's id.                                    *)
(***************************************************************************)
C18_FailureAudited ==
  \A i \in DOMAIN run :
    (run[i].step = "done" /\ (run[i].sim = "fail" \/ run[i].result = "failure"))
      => \E k \in DOMAIN executions :
           /\ executions[k].id = profitableBundles[i].id
           /\ ~executions[k].success

(***************************************************************************)
(* C19 as stated: gasPrice() never rejects, and whenever the network query  *)
(* fails it returns the default of 25 gwei, whatever is in the cache.       *)
(***************************************************************************)
C19_AlwaysDefault ==
  call.op = "gasPrice" =>
    /\ ~call.rejected
    /\ call.failed => call.out = DefaultGasPrice

(***************************************************************************)
(* C19 amended: gasPrice() never rejects; when the network query fails it   *)
(* returns the price cached last, however old, and the default of 25 gwei   *)
(* only when nothing has been cached.                                       *)
(***************************************************************************)
C19_NeverRejects ==
  call.op = "gasPrice" =>
    /\ ~call.rejected
    /\ call.failed =>
         call.out = IF call.cacheBefore # <<>>
                    THEN call.cacheBefore[1].price
                    ELSE DefaultGasPrice

\* the query fails with an expired price of 30 gwei in the cache
C19_Witness ==
  /\ call.op = "gasPrice"
  /\ call.failed
  /\ call.cacheBefore # <<>>
  /\ call.at - call.cacheBefore[1].timestamp >= CACHE_TTL_MS
  /\ call.out = 30

(***************************************************************************)
(* C20: two consecutive gasPrice() calls less than CACHE_TTL_MS apart       *)
(* return the same value and the second asks the network nothing, whether   *)
(* the first succeeded or fell back; a value taken from the cache is never  *)
(* older than CACHE_TTL_MS.                                                 *)
(***************************************************************************)
C20_CachedForTtl ==
  call.op = "gasPrice" =>
    /\ (call.prev # <<>> /\ call.at - call.prev[1].at < CACHE_TTL_MS)
         => (call.out = call.prev[1].out /\ ~call.queried)
    /\ (call.cacheBefore # <<>> /\ (~call.queried \/ call.failed))
         => call.at - call.cacheBefore[1].timestamp < CACHE_TTL_MS

(***************************************************************************)
(* C21: simulate(bundle) never throws and invokes only reading methods of   *)
(* the provider; it returns ok = false with a non-empty reason when no      *)
(* wallet is configured, when the provider raises an error and when the     *)
(* balance is below gasPrice x estimated gas, and ok = true only with a     *)
(* wallet configured and the balance check passed.                          *)
(***************************************************************************)
ReadingMethods == {"getBalance", "getFeeData"}

C21_SimulateNeverThrows ==
  call.op = "simulate" =>
    LET checked == /\ call.wallet
                   /\ call.balance.kind = "ok"
                   /\ call.gasPrice # <<>>
        passed == /\ checked
                  /\ call.balance.v
                       >= call.gasPrice[1] * SimulateEstimatedGas(call.bundle)
    IN /\ ~call.threw
       /\ call.rpc \subseteq ReadingMethods
       /\ call.out.ok <=> passed
       /\ ~call.out.ok => Len(call.out.reason) > 0

\* the provider raised an error with an empty message
C21_Witness ==
  /\ call.op = "simulate"
  /\ call.wallet
  /\ call.balance = Throws
  /\ ~call.out.ok
  /\ call.out.reason = "Simulation failed: "

(***************************************************************************)
(* C22: whenever simulate(bundle) returns ok = true, the balance covers the *)
(* worst case of sending the bundle: balance >= gasPrice x the gas limit    *)
(* sendRaw uses for that bundle.                                            *)
(***************************************************************************)
C22_WorstCaseGas ==
  (call.op = "simulate" /\ call.out.ok)
    => call.balance.v >= call.gasPrice[1] * SendRawGasLimit(call.bundle)

(***************************************************************************)
(* C23: no item below MIN_ITEM_USD and no item whose lastClaimAt is less    *)
(* than COOLDOWN_DAYS old is in a bundle or in a bundle that is executed;   *)
(* in a cycle whose collected items all fail this filter nothing is         *)
(* simulated or executed and the executions table is not written.           *)
(***************************************************************************)
C23_PolicyFilter ==
  [][LET dust(r) == RewardTable[r].amountUsd < MIN_ITEM_USD
         cooling(r) == /\ RewardTable[r].lastClaimAt # NoClaim
                       /\ now' - RewardTable[r].lastClaimAt[1] < COOLDOWN_DAYS
         noSurvivor == \A r \in Range(allPendingRewards') :
                          dust(r) \/ cooling(r)
     IN /\ \A r \in BundledItems'
                     \cup UNION {Range(profitableBundles'[i].items) :
                                   i \in DOMAIN profitableBundles'} :
             ~dust(r) /\ ~cooling(r)
        /\ (pc' \in {"execute", "settled"} /\ noSurvivor)
             => bundles' = <<>>
        /\ noSurvivor => (run' = <<>> /\ executions' = executions)]_vars

\* an unpriced item and an item in cooldown were collected, and the bundle of
\* the remaining item was executed
C23_Witness ==
  /\ {"r2", "r3", "r6"} \subseteq Range(allPendingRewards)
  /\ now - RewardTable["r2"].lastClaimAt[1] < COOLDOWN_DAYS
  /\ \E i \in DOMAIN run : run[i].rec = "stored"

C25_PositiveMonotone ==
  LET shorter == MakeBundle(SubSeq(call.bundle.items, 1,
                                   Len(call.bundle.items) - 1))
  IN /\ call.op = "estimateBundleGasUsd" =>
          /\ call.out # NaN
          /\ call.out[1] > 0
          /\ Len(call.bundle.items) > 1 =>
               LET less == estimateBundleGasUsd(shorter, call.chain,
                                                call.chainClient)
               IN less # NaN /\ less[1] <= call.out[1]
     /\ call.op = "estimateBundleUsd" =>
          /\ call.out > 0
          /\ Len(call.bundle.items) > 1 =>
               estimateBundleUsd(shorter).out <= call.out

(***************************************************************************)
(* C26: the executions table never holds two records with one id; a         *)
(* recordExecution for a bundle id that already has a record, successful or *)
(* failed, throws and leaves the table as it was, and one for a new id      *)
(* appends its record.                                                      *)
(***************************************************************************)
C26_OneRecordPerBundle ==
  /\ \A j, k \in DOMAIN executions :
       j # k => executions[j].id # executions[k].id
  /\ call.op = "recordExecution" =>
       LET had == \E k \in DOMAIN call.before :
                    call.before[k].id = call.bundle.id
       IN /\ call.threw <=> had
          /\ had => executions = call.before
          /\ ~had => executions =
                        Append(call.before, [id |-> call.bundle.id,
                                             success |-> call.success])

\* a success reported for a bundle id whose failure is on record: not stored
C26_Witness ==
  /\ call.op = "recordExecution"
  /\ call.threw
  /\ call.success
  /\ \E k \in DOMAIN executions :
       executions[k].id = call.bundle.id /\ ~executions[k].success
  /\ Len(executions) = 2

(***************************************************************************)
(* C27: after recordPending(reward) the table holds exactly one row of the  *)
(* reward's id, with is_stale = FALSE and last_claim_at the reward's own    *)
(* lastClaimAt (null when absent), whatever markClaimed had written to the  *)
(* row before; the other rows are as they were.                             *)
(***************************************************************************)
C27_RecordPendingReplaces ==
  call.op = "recordPending" =>
    LET mine == {row \in pending_rewards : row.id = call.id}
    IN /\ mine = {[id |-> call.id, is_stale |-> FALSE,
                    last_claim_at |-> RewardTable[call.id].lastClaimAt]}
       /\ pending_rewards \ mine = {row \in call.before : row.id # call.id}

\* a row marked claimed at time 1, of a reward that carries no lastClaimAt
C27_Witness ==
  /\ call.op = "recordPending"
  /\ RewardTable[call.id].lastClaimAt = NoClaim
  /\ [id |-> call.id, is_stale |-> TRUE, last_claim_at |-> <<1>>]
       \in call.before
  /\ Cardinality(pending_rewards) = 2

(***************************************************************************)
(* C28: after any sequence of upsertWallet, recordPending, recordExecution  *)
(* and markClaimed no row of wallets has a last_claim_at, so                *)
(* getWalletLastClaim returns null for every wallet; an upsertWallet of a   *)
(* wallet that has a row leaves the table as it was.                        *)
(***************************************************************************)
C28_WalletLastClaimNull ==
  /\ \A row \in wallets : row.last_claim_at = NoClaim
  /\ \A w \in Wallets : getWalletLastClaim(wallets, w) = NoClaim
  /\ (call.op = "upsertWallet"
        /\ \E row \in call.before : row.address = call.wallet)
       => wallets = call.before

\* the reward of a stored wallet was executed successfully and marked claimed
C28_Witness ==
  /\ call.op = "markClaimed"
  /\ call.status = "committed"
  /\ \E k \in DOMAIN call.ids :
       /\ \E row \in wallets : row.address = RewardTable[call.ids[k]].wallet
       /\ \E row \in pending_rewards : row.id = call.ids[k] /\ row.is_stale
       /\ \E j \in DOMAIN executions :
            /\ executions[j].success
            /\ call.ids[k] \in Range(executions[j].id)
       /\ getWalletLastClaim(wallets, RewardTable[call.ids[k]].wallet)
            = NoClaim

====
